---- MODULE Spec2Model ----
(***************************************************************************)
(* Invoice-data extraction service (sistemaagro).                          *)
(*                                                                         *)
(* The model covers the Gemini agent (processPDFWithGemini: one inference  *)
(* call, clean-up of the reply, JSON.parse) and the /extract-data handler  *)
(* of the modularised server that calls it.                                *)
(*                                                                         *)
(* Texts.  A text is a sequence whose elements are single characters,      *)
(* except that a run of letters and underscores (a word such as            *)
(* "valor_total" or "json") may be written as one element.  No operation   *)
(* of the code looks inside a word apart from the literal "json" that may  *)
(* follow a code fence, and the replies below never glue other letters to  *)
(* that literal.  A back-quote cannot be written inside a TLA+ string, so  *)
(* the back-quote character is written BQ.                                 *)
(***************************************************************************)
EXTENDS Integers, Sequences, FiniteSets, TLC

BQ == "BACKQUOTE"
DQ == "\""
BS == "\\"

Digits == {"0", "1", "2", "3", "4", "5", "6", "7", "8", "9"}

\* White space of String.prototype.trim and of the JSON grammar that the
\* replies use.
WhiteSpace == {" ", "\n", "\t", "\r"}

DigitVal(c) ==
    CASE c = "0" -> 0 [] c = "1" -> 1 [] c = "2" -> 2 [] c = "3" -> 3
      [] c = "4" -> 4 [] c = "5" -> 5 [] c = "6" -> 6 [] c = "7" -> 7
      [] c = "8" -> 8 [] c = "9" -> 9

\* The elements of t at the indices in keep, in their order in t ("" is no
\* element of a text).
Pick(t, keep) ==
    SelectSeq([i \in 1..Len(t) |-> IF i \in keep THEN t[i] ELSE ""],
              LAMBDA c : c # "")

Min(S) == CHOOSE i \in S : \A k \in S : i <= k
Max(S) == CHOOSE i \in S : \A k \in S : k <= i

\* The number of consecutive elements equal to c that end just before
\* index i.
RunBefore(t, c, i) ==
    LET others == {j \in 1..(i - 1) : t[j] # c}
    IN  IF others = {} THEN i - 1 ELSE i - 1 - Max(others)

\* The number of consecutive elements in the set C that start at index i.
RunFromSet(t, C, i) ==
    LET others == {j \in i..Len(t) : t[j] \notin C}
    IN  IF others = {} THEN Len(t) + 1 - i ELSE Min(others) - i

RunFrom(t, c, i) == RunFromSet(t, {c}, i)

(***************************************************************************)
(* response.text().replace(/```json|```/g, '').  The matches are found     *)
(* from left to right and do not overlap: of a run of back-quotes every    *)
(* complete group of three is removed, and "json" is removed with the      *)
(* group it follows.                                                       *)
(***************************************************************************)
StripFences(t) ==
    LET InFence(i) ==
            /\ t[i] = BQ
            /\ LET before == RunBefore(t, BQ, i)
                   whole  == before + RunFrom(t, BQ, i)
               IN  before < 3 * (whole \div 3)
        AfterFence(i) ==
            /\ t[i] = "json"
            /\ LET run == RunBefore(t, BQ, i)
               IN  run >= 3 /\ run % 3 = 0
    IN  Pick(t, {i \in 1..Len(t) : ~InFence(i) /\ ~AfterFence(i)})

(***************************************************************************)
(* String.prototype.trim                                                   *)
(***************************************************************************)
Trim(t) ==
    LET solid == {i \in 1..Len(t) : t[i] \notin WhiteSpace}
    IN  IF solid = {} THEN <<>> ELSE SubSeq(t, Min(solid), Max(solid))

(***************************************************************************)
(* text.match(/\{[\s\S]*\}/): the star is greedy, so the match runs from   *)
(* the first "{" to the last "}" of the text; no match when no "}" follows *)
(* the first "{".                                                          *)
(***************************************************************************)
NoMatch == [found |-> FALSE, text |-> <<>>]

JsonMatch(t) ==
    LET opens  == {i \in 1..Len(t) : t[i] = "{"}
        closes == {i \in 1..Len(t) : t[i] = "}"}
    IN  IF opens = {} THEN NoMatch
        ELSE LET first == Min(opens)
                 after == {j \in closes : j > first}
             IN  IF after = {} THEN NoMatch
                 ELSE [found |-> TRUE, text |-> SubSeq(t, first, Max(after))]

(***************************************************************************)
(* JSON values.  Every value is a record of the same shape so that any two *)
(* values can be compared: t is the type, n the value of a number in       *)
(* hundredths (or 1/0 for true/false), s the characters of a string, kids  *)
(* the members of an object ([k, v], in insertion order) or the elements   *)
(* of an array ([k |-> <<>>, v]).                                          *)
(***************************************************************************)
Scale == 100

JNull    == [t |-> "null", n |-> 0, s |-> <<>>, kids |-> <<>>]
JBool(b) == [t |-> "bool", n |-> IF b THEN 1 ELSE 0, s |-> <<>>, kids |-> <<>>]
JNum(n)  == [t |-> "num", n |-> n, s |-> <<>>, kids |-> <<>>]
JStr(s)  == [t |-> "str", n |-> 0, s |-> s, kids |-> <<>>]
JArr(ks) == [t |-> "arr", n |-> 0, s |-> <<>>, kids |-> ks]
JObj(ks) == [t |-> "obj", n |-> 0, s |-> <<>>, kids |-> ks]

\* Result of a parsing step: ok, the value read, the index after it.
PFail == [ok |-> FALSE, v |-> JNull, i |-> 0]
POk(v, i) == [ok |-> TRUE, v |-> v, i |-> i]

\* The first index from i on that is not white space (Len(t) + 1 if none).
SkipWS(t, i) == i + RunFromSet(t, WhiteSpace, i)

\* The string literal whose opening quote is just before index i.  It ends
\* at the first quote that is not escaped, that is, not preceded by an odd
\* run of backslashes.  A raw control character inside a string is a syntax
\* error; of the escapes only \" \\ and \/ are read.
ParseString(t, i) ==
    LET Slashes(k) == RunBefore(SubSeq(t, i, Len(t)), BS, k - i + 1)
        quotes == {k \in i..Len(t) : t[k] = DQ /\ Slashes(k) % 2 = 0}
    IN  IF quotes = {} THEN PFail
        ELSE LET e == Min(quotes)
                 EscapeStart(k) == t[k] = BS /\ Slashes(k) % 2 = 0
                 Escaped(k) == k > i /\ EscapeStart(k - 1)
                 bad == {k \in i..(e - 1) :
                            \/ ~Escaped(k) /\ t[k] \in {"\n", "\t", "\r"}
                            \/ Escaped(k) /\ t[k] \notin {DQ, BS, "/"}}
                 body == Pick(t, {k \in i..(e - 1) : ~EscapeStart(k)})
             IN  IF bad # {} THEN PFail ELSE POk(JStr(body), e + 1)

\* The value of the digits t[i] .. t[j].
RECURSIVE DigitsValue(_, _, _)
DigitsValue(t, i, j) ==
    IF j < i THEN 0 ELSE DigitsValue(t, i, j - 1) * 10 + DigitVal(t[j])

\* The run of digits from index i: its value, its length, the index after.
ParseDigits(t, i) ==
    LET len == RunFromSet(t, Digits, i)
    IN  [n |-> DigitsValue(t, i, i + len - 1), len |-> len, i |-> i + len]

\* number = -? (0 | [1-9][0-9]*) (. [0-9]+)?   The value is kept exactly to
\* hundredths; an exponent is not read.
ParseNumber(t, i) ==
    LET neg   == t[i] = "-"
        j     == IF neg THEN i + 1 ELSE i
        int   == ParseDigits(t, j)
        lead0 == int.len > 1 /\ t[j] = "0"
        hasFr == int.i <= Len(t) /\ t[int.i] = "."
        fr    == ParseDigits(t, int.i + 1)
        h1    == IF fr.len >= 1 THEN DigitVal(t[int.i + 1]) ELSE 0
        h2    == IF fr.len >= 2 THEN DigitVal(t[int.i + 2]) ELSE 0
        mag   == int.n * Scale + (IF hasFr THEN h1 * 10 + h2 ELSE 0)
        val   == IF neg THEN 0 - mag ELSE mag
    IN  IF int.len = 0 \/ lead0 THEN PFail
        ELSE IF hasFr
             THEN IF fr.len = 0 THEN PFail ELSE POk(JNum(val), fr.i)
             ELSE POk(JNum(val), int.i)

\* Assignment obj[k] = v: a repeated key keeps its first position and takes
\* the later value.
PutMember(ks, k, v) ==
    IF \E p \in 1..Len(ks) : ks[p].k = k
    THEN [p \in 1..Len(ks) |-> IF ks[p].k = k THEN [k |-> k, v |-> v] ELSE ks[p]]
    ELSE Append(ks, [k |-> k, v |-> v])

RECURSIVE ParseValue(_, _)
RECURSIVE ParseMembers(_, _, _)
RECURSIVE ParseElements(_, _, _)

\* Members of an object from index i, which is at the first character of a
\* key; acc holds the members read so far.
ParseMembers(t, i, acc) ==
    IF i > Len(t) \/ t[i] # DQ THEN PFail
    ELSE LET key == ParseString(t, i + 1)
         IN  IF ~key.ok THEN PFail
             ELSE LET c == SkipWS(t, key.i)
                  IN  IF c > Len(t) \/ t[c] # ":" THEN PFail
                      ELSE LET val == ParseValue(t, c + 1)
                           IN  IF ~val.ok THEN PFail
                               ELSE LET e   == SkipWS(t, val.i)
                                        ks  == PutMember(acc, key.v.s, val.v)
                                    IN  IF e > Len(t) THEN PFail
                                        ELSE IF t[e] = "}" THEN POk(JObj(ks), e + 1)
                                        ELSE IF t[e] = ","
                                             THEN ParseMembers(t, SkipWS(t, e + 1), ks)
                                        ELSE PFail

\* Elements of an array from index i, which is where an element starts.
ParseElements(t, i, acc) ==
    LET val == ParseValue(t, i)
    IN  IF ~val.ok THEN PFail
        ELSE LET e  == SkipWS(t, val.i)
                 ks == Append(acc, [k |-> <<>>, v |-> val.v])
             IN  IF e > Len(t) THEN PFail
                 ELSE IF t[e] = "]" THEN POk(JArr(ks), e + 1)
                 ELSE IF t[e] = "," THEN ParseElements(t, e + 1, ks)
                 ELSE PFail

ParseValue(t, i) ==
    LET j == SkipWS(t, i)
    IN  IF j > Len(t) THEN PFail
        ELSE IF t[j] = "{"
             THEN LET m == SkipWS(t, j + 1)
                  IN  IF m <= Len(t) /\ t[m] = "}" THEN POk(JObj(<<>>), m + 1)
                      ELSE ParseMembers(t, m, <<>>)
        ELSE IF t[j] = "["
             THEN LET m == SkipWS(t, j + 1)
                  IN  IF m <= Len(t) /\ t[m] = "]" THEN POk(JArr(<<>>), m + 1)
                      ELSE ParseElements(t, m, <<>>)
        ELSE IF t[j] = DQ THEN ParseString(t, j + 1)
        ELSE IF t[j] = "null" THEN POk(JNull, j + 1)
        ELSE IF t[j] = "true" THEN POk(JBool(TRUE), j + 1)
        ELSE IF t[j] = "false" THEN POk(JBool(FALSE), j + 1)
        ELSE IF t[j] \in Digits \cup {"-"} THEN ParseNumber(t, j)
        ELSE PFail

(***************************************************************************)
(* JSON.parse(text): one value with optional white space around it; any    *)
(* other text throws a SyntaxError (ok = FALSE).                           *)
(***************************************************************************)
JSONParse(t) ==
    LET r == ParseValue(t, 1)
    IN  IF r.ok /\ SkipWS(t, r.i) > Len(t)
        THEN [ok |-> TRUE, v |-> r.v]
        ELSE [ok |-> FALSE, v |-> JNull]

(***************************************************************************)
(* Lines 165-173 of the agent: clean the reply up and parse it.  text is   *)
(* what JSON.parse was given; when it throws, ok is FALSE.                 *)
(***************************************************************************)
ProcessReply(raw) ==
    LET text      == Trim(StripFences(raw))
        jsonMatch == JsonMatch(text)
        text2     == IF jsonMatch.found THEN jsonMatch.text ELSE text
        parsed    == JSONParse(text2)
    IN  [ok |-> parsed.ok, extractedData |-> parsed.v, text |-> text2]

(***************************************************************************)
(* The taxonomy.                                                           *)
(***************************************************************************)
CATEGORIAS_DESPESAS ==
    << <<"INSUMOS", " ", "AGRÍCOLAS">>,
       <<"MANUTENÇÃO", " ", "E", " ", "OPERAÇÃO">>,
       <<"RECURSOS", " ", "HUMANOS">>,
       <<"SERVIÇOS", " ", "OPERACIONAIS">>,
       <<"INFRAESTRUTURA", " ", "E", " ", "UTILIDADES">>,
       <<"ADMINISTRATIVAS">>,
       <<"SEGUROS", " ", "E", " ", "PROTEÇÃO">>,
       <<"IMPOSTOS", " ", "E", " ", "TAXAS">>,
       <<"INVESTIMENTOS">> >>

(***************************************************************************)
(* Replies of the simulated inference backend.                             *)
(***************************************************************************)
Quoted(s) == <<DQ>> \o s \o <<DQ>>
Member(k, v) == <<DQ, k, DQ, ":">> \o v
Object1(m1) == <<"{">> \o m1 \o <<"}">>
Object2(m1, m2) == <<"{">> \o m1 \o <<",">> \o m2 \o <<"}">>

RawCnpj   == <<"1", "8", ".", "9", "4", "4", ".", "1", "1", "3", "/",
               "0", "0", "0", "2", "-", "9", "1">>
CleanCnpj == <<"1", "8", "9", "4", "4", "1", "1", "3", "0", "0", "0", "2", "9", "1">>
RawCpf    == <<"7", "0", "9", ".", "0", "4", "6", ".", "0", "1", "1", "-", "8", "8">>
RawNumero   == <<"0", "0", "0", ".", "2", "0", "7", ".", "5", "9", "0">>
CleanNumero == <<"0", "0", "0", "2", "0", "7", "5", "9", "0">>
RawValor    == <<"3", ".", "4", "4", "9", ",", "0", "0">>

BodyA == Object1(Member("a", <<"1">>))

BodyEmpty == <<"{", "}">>

\* The body of the scenario of the specification and of the examples of
\* the prompt (lines 146-148).
BodyScenario ==
    Object2(Member("numero_nota_fiscal", Quoted(RawNumero)),
            Member("valor_total", Quoted(RawValor)))

BodyTaxIds ==
    Object2(Member("fornecedor", Object1(Member("cnpj", Quoted(RawCnpj)))),
            Member("faturado", Object1(Member("cpf", Quoted(RawCpf)))))

BodyClean ==
    <<"{">> \o Member("fornecedor", Object1(Member("cnpj", Quoted(CleanCnpj))))
      \o <<",">> \o Member("faturado", Object1(Member("cpf", <<"null">>)))
      \o <<",">> \o Member("numero_nota_fiscal", Quoted(CleanNumero))
      \o <<",">> \o Member("quantidade_parcelas", <<"1">>)
      \o <<",">> \o Member("valor_total", <<"3", "4", "4", "9", ".", "0", "0">>)
      \o <<",">> \o Member("classificacao_despesa", Quoted(CATEGORIAS_DESPESAS[1]))
      \o <<"}">>

BodyBadCategory ==
    Object2(Member("classificacao_despesa", Quoted(<<"AGRO">>)),
            Member("quantidade_parcelas", <<"2">>))

BodyZeroParcelas == Object1(Member("quantidade_parcelas", <<"0">>))

BodyNegativeParcelas == Object1(Member("quantidade_parcelas", <<"-", "1">>))

BodyCentavos == Object1(Member("valor_total", <<"3", "4", "4", "9", "0", "0">>))

\* Replies that are JSON values but not objects, and replies that are no
\* JSON at all.
BodyNumber == <<"4", "2">>
BodyString == Quoted(<<"ok">>)
BodyNull   == <<"null">>
BodyArray  == <<"[", "1", "]">>
BodyProse  == <<"desculpe">>
BodyOpen   == <<"{", DQ, "a", DQ, ":">>
BodyNone   == <<>>

Bodies ==
    {BodyA, BodyEmpty, BodyScenario, BodyTaxIds, BodyClean, BodyBadCategory,
     BodyZeroParcelas, BodyNegativeParcelas, BodyCentavos, BodyNumber,
     BodyString, BodyNull, BodyArray, BodyProse, BodyOpen, BodyNone}

\* Commentary that a backend puts before and after the object.
Prefixes == {<<>>, <<"text", " ", "before", " ">>}

Suffixes ==
    {<<>>,
     <<" ", "text", " ", "after">>,
     <<" ", "obs", " ", "{", "x", "}">>,
     <<"\n">> \o BodyA}

\* No fence, a json fence, a bare fence.
FenceOpens == {<<>>, <<BQ, BQ, BQ, "json", "\n">>, <<BQ, BQ, BQ, "\n">>}

Fenced(open, body) ==
    IF open = <<>> THEN body ELSE open \o body \o <<"\n", BQ, BQ, BQ>>

Replies ==
    {pre \o Fenced(open, body) \o post :
        pre \in Prefixes, open \in FenceOpens, body \in Bodies, post \in Suffixes}

\* The reply of the scenario of the specification.
ScenarioReply == Fenced(<<BQ, BQ, BQ, "json", "\n">>, BodyScenario)

\* The replies used when several requests are in flight.
SampleReplies == {BodyClean, BodyBadCategory, BodyNumber, BodyProse}

(***************************************************************************)
(* Bounds.                                                                 *)
(***************************************************************************)
\* The number of requests the server handles.
NumReqs == 2

\* The last reading of the clock (Date.now(), in milliseconds from start).
MaxClock == 60

\* The number of requests of the page that may be in flight.
MaxPending == 2

Reqs == 1..NumReqs

(***************************************************************************)
(* Inputs.                                                                 *)
(***************************************************************************)
\* req.file as multer leaves it: undefined when the form carried no file,
\* otherwise the name and the byte size of the upload (an empty upload has
\* size 0).
NoFile == [present |-> FALSE, originalname |-> "", size |-> 0]
Upload(name, size) == [present |-> TRUE, originalname |-> name, size |-> size]

Files == {NoFile, Upload("vazio.pdf", 0), Upload("nota.pdf", 2048)}

\* Messages of the errors the Gemini client throws.
InferenceErrors == {"fetch failed", "quota exceeded"}

\* The time that passes between two steps, in milliseconds.
TickSteps == {60}

(***************************************************************************)
(* Responses.  keys is the set of keys of the JSON body; the other fields  *)
(* hold the values of the keys that are present.                           *)
(***************************************************************************)
NoDetails == [prefix |-> "", message |-> "", quoted |-> <<>>]
NoMetadata == [filename |-> "", fileSize |-> 0, processingTime |-> 0, timestamp |-> 0]

NoResponse ==
    [status |-> 0, keys |-> {}, success |-> FALSE, error |-> "",
     instructions |-> "", details |-> NoDetails, processingTime |-> 0,
     timestamp |-> 0, method |-> "", data |-> JNull, metadata |-> NoMetadata]

\* ((Date.now() - startTime) / 1000).toFixed(1): seconds with one decimal,
\* kept as the number of tenths, rounded to nearest.
ToFixed1(ms) == (ms + 50) \div 100

(***************************************************************************)
(* getCategoryExamples and GET /categories.                                *)
(***************************************************************************)
\* A JavaScript value returned by getCategoryExamples: an array of strings,
\* or a function or object found on the prototype chain.
List(items) == [kind |-> "array", items |-> items]
Inherited(kind) == [kind |-> kind, items |-> <<>>]

\* The own properties of the object literal examples.
examples ==
    [c \in {CATEGORIAS_DESPESAS[i] : i \in 1..Len(CATEGORIAS_DESPESAS)} |->
        CASE c = CATEGORIAS_DESPESAS[1] ->
                <<"Sementes", "Fertilizantes", "Defensivos Agrícolas", "Corretivos">>
          [] c = CATEGORIAS_DESPESAS[2] ->
                <<"Combustíveis", "Lubrificantes", "Peças", "Manutenção de Máquinas">>
          [] c = CATEGORIAS_DESPESAS[3] ->
                <<"Mão de Obra Temporária", "Salários e Encargos">>
          [] c = CATEGORIAS_DESPESAS[4] ->
                <<"Frete", "Transporte", "Colheita Terceirizada">>
          [] c = CATEGORIAS_DESPESAS[5] ->
                <<"Energia Elétrica", "Arrendamento", "Construções">>
          [] c = CATEGORIAS_DESPESAS[6] ->
                <<"Honorários Contábeis", "Despesas Bancárias">>
          [] c = CATEGORIAS_DESPESAS[7] ->
                <<"Seguro Agrícola", "Seguro de Ativos">>
          [] c = CATEGORIAS_DESPESAS[8] ->
                <<"ITR", "IPTU", "IPVA", "INCRA-CCIR">>
          [] c = CATEGORIAS_DESPESAS[9] ->
                <<"Máquinas", "Implementos", "Veículos", "Imóveis">>]

\* The properties that an object literal inherits from Object.prototype:
\* methods, and the accessor __proto__, whose value is the prototype.
ObjectPrototype ==
    [name \in {<<"constructor">>, <<"toString">>, <<"toLocaleString">>,
               <<"valueOf">>, <<"hasOwnProperty">>, <<"isPrototypeOf">>,
               <<"propertyIsEnumerable">>, <<"__proto__">>} |->
        IF name = <<"__proto__">> THEN Inherited("object") ELSE Inherited("function")]

\* return examples[category] || []: the own property, else the inherited
\* one (functions and objects are truthy), else the empty array.
getCategoryExamples(category) ==
    IF category \in DOMAIN examples THEN List(examples[category])
    ELSE IF category \in DOMAIN ObjectPrototype THEN ObjectPrototype[category]
    ELSE List(<<>>)

\* The categories of the body of GET /categories.
CategoriesBody ==
    [index \in 1..Len(CATEGORIAS_DESPESAS) |->
        [id |-> index,
         name |-> CATEGORIAS_DESPESAS[index],
         examples |-> getCategoryExamples(CATEGORIAS_DESPESAS[index])]]

\* Arguments with which getCategoryExamples is called.
LookupArguments ==
    {CATEGORIAS_DESPESAS[1], CATEGORIAS_DESPESAS[9],
     <<>>, <<"OUTROS">>, <<"insumos", " ", "agrícolas">>,
     <<"constructor">>, <<"toString">>, <<"__proto__">>}

NoLookup == [called |-> FALSE, category |-> <<>>, result |-> List(<<>>)]

(***************************************************************************)
(* The upload middleware (multer) and the error-handling middleware.       *)
(***************************************************************************)
NoError == [multer |-> FALSE, code |-> "", message |-> <<>>]

\* new Error(message) and new multer.MulterError(code), whose message
\* multer derives from the code.
PlainError(message) == [multer |-> FALSE, code |-> "", message |-> message]
MulterError(code, message) == [multer |-> TRUE, code |-> code, message |-> message]

\* The message of the file filter.  Its first word is written character by
\* character, the others as words.
FilterMessage ==
    <<"A", "p", "e", "n", "a", "s", " ", "arquivos", " ", "PDF", " ", "são", " ",
      "permitidos", " ", "para", " ", "extração", " ", "de", " ", "dados", " ",
      "de", " ", "notas", " ", "fiscais", ".">>

\* The text that the error middleware looks for.
FilterNeedle == <<"a", "p", "e", "n", "a", "s", " ", "arquivos", " ", "PDF">>

\* limits.fileSize
FileSizeLimit == 15 * 1024 * 1024

\* What a client may post: the field of the file part, its media type and
\* its size.
Uploads ==
    [field : {"invoice", "arquivo"},
     mimetype : {"application/pdf", "image/png"},
     size : {2048, FileSizeLimit, FileSizeLimit + 1}]

\* upload.single('invoice'): the error that multer passes on, NoError when
\* it accepts the upload.  The filter runs when the file part starts, the
\* size limit strikes while its bytes are read.
MulterOutcome(u) ==
    IF u.field # "invoice"
    THEN MulterError("LIMIT_UNEXPECTED_FILE", <<"Unexpected", " ", "field">>)
    ELSE IF u.mimetype # "application/pdf" THEN PlainError(FilterMessage)
    ELSE IF u.size > FileSizeLimit
    THEN MulterError("LIMIT_FILE_SIZE", <<"File", " ", "too", " ", "large">>)
    ELSE NoError

\* String.prototype.includes: the needle occurs in the text; the comparison
\* of characters is case-sensitive.
Includes(t, needle) ==
    \E i \in 1..(Len(t) - Len(needle) + 1) :
        SubSeq(t, i, i + Len(needle) - 1) = needle

\* The text as one string.
RECURSIVE TextString(_)
TextString(t) == IF t = <<>> THEN "" ELSE t[1] \o TextString(Tail(t))

(***************************************************************************)
(* Text extraction of the raw-text server.  A document is what pdf.js      *)
(* finds in the buffer: it cannot be loaded, or it has pages, each a       *)
(* sequence of text items.  The texts of items are sequences of single     *)
(* characters, so that Len is the length of the string.                    *)
(***************************************************************************)
\* The least length of an extracted text that is sent to the backend.
MinTextLength == 50

\* The number of pages that are read.
MaxPages == 3

\* A string of n characters.
Chars(n) == [i \in 1..n |-> "x"]

Corrupt == [loads |-> FALSE, pages |-> <<>>]
Pdf(pages) == [loads |-> TRUE, pages |-> pages]

Documents ==
    {Corrupt,
     Pdf(<< <<>> >>),
     Pdf(<< <<<<" ">>, <<"\n">>>> >>),
     Pdf(<< <<Chars(MinTextLength - 1)>> >>),
     Pdf(<< <<Chars(MinTextLength)>> >>),
     Pdf(<< <<Chars(24), Chars(25)>> >>),
     Pdf(<< <<Chars(24), Chars(24)>> >>),
     Pdf(<< <<Chars(10)>>, <<Chars(10)>>, <<Chars(10)>>, <<Chars(60)>> >>),
     Pdf(<< <<Chars(16)>>, <<Chars(16)>>, <<Chars(14)>>, <<>> >>)}

\* The documents that a buffer of the given size may hold: pdf.js loads no
\* empty buffer.
DocumentsOf(f) == IF f.size = 0 THEN {Corrupt} ELSE Documents

\* items.map(item => item.str).join(' ')
RECURSIVE JoinItems(_)
JoinItems(items) ==
    IF items = <<>> THEN <<>>
    ELSE IF Len(items) = 1 THEN items[1]
    ELSE items[1] \o <<" ">> \o JoinItems(Tail(items))

\* The loop over the pages from page pageNum on: fullText += pageText + '\n\n'
RECURSIVE FullText(_, _)
FullText(doc, pageNum) ==
    IF pageNum > Min({Len(doc.pages), MaxPages}) THEN <<>>
    ELSE JoinItems(doc.pages[pageNum]) \o <<"\n", "\n">> \o FullText(doc, pageNum + 1)

\* extractTextFromPDF of a document that loads.
extractTextFromPDF(doc) == Trim(FullText(doc, 1))

\* Messages of the errors pdf.js throws.
PdfErrors == {"Invalid PDF structure"}

(***************************************************************************)
(* Initial values of the state outside the handler.                        *)
(***************************************************************************)
NoExtraction == [done |-> FALSE, ok |-> FALSE, text |-> <<>>]
NoBody == [ok |-> FALSE, filename |-> "", error |-> ""]

\* ProcessReply of every reply of the simulated backend, computed once.
Processed == [raw \in Replies |-> ProcessReply(raw)]

VARIABLES
    apiKey,     \* process.env.GEMINI_API_KEY is set
    clock,      \* Date.now()
    stage,      \* where the handling of each request stands
    file,       \* req.file of each request
    startTime,  \* startTime of each handler invocation
    calls,      \* number of model.generateContent calls made for each request
    reply,      \* response.text() of each request
    threw,      \* the error thrown by processPDFWithGemini, if any
    data,       \* extractedData of each request
    res,        \* the response sent for each request
    sent,       \* number of responses sent for each request
    overlap,    \* history: the inference call of the request was in flight
                \* together with that of another request
    uploadError,\* the error multer passed to the error middleware, if any
    extracted,  \* raw-text variant: the outcome of extractTextFromPDF
    listing,    \* the body of the last answer of GET /categories
    lookup,     \* the last call of getCategoryExamples and its result
    selected,   \* page: name of fileInput.files[0] ("" when no file)
    fileNameSpan, \* page: fileNameSpan.textContent
    disabled,   \* page: extractButton.disabled
    display,    \* page: resultContainer.style.display
    messageP,   \* page: messageP.textContent
    jsonOutput, \* page: what jsonOutput.textContent shows
    pending     \* page: the fetches that have not settled, oldest first

\* The state outside the /extract-data handler and the agent.
outside == <<uploadError, extracted, listing, lookup,
             selected, fileNameSpan, disabled, display, messageP, jsonOutput, pending>>

vars == <<apiKey, clock, stage, file, startTime, calls, reply, threw, data, res, sent,
          overlap, outside>>

server == <<apiKey, clock, stage, file, startTime, calls, reply, threw, data,
            res, sent, overlap, uploadError, extracted>>

page == <<selected, fileNameSpan, disabled, display, messageP, jsonOutput, pending>>

Stages ==
    {"Idle", "Received", "Validated", "RequestBuilt", "InferenceInFlight",
     "ResponseParsed", "Completed", "Failed"}

Init ==
    /\ apiKey \in BOOLEAN
    /\ clock = 0
    /\ stage = [r \in Reqs |-> "Idle"]
    /\ file = [r \in Reqs |-> NoFile]
    /\ startTime = [r \in Reqs |-> 0]
    /\ calls = [r \in Reqs |-> 0]
    /\ reply = [r \in Reqs |-> <<>>]
    /\ threw = [r \in Reqs |-> NoDetails]
    /\ data = [r \in Reqs |-> JNull]
    /\ res = [r \in Reqs |-> NoResponse]
    /\ sent = [r \in Reqs |-> 0]
    /\ overlap = [r \in Reqs |-> FALSE]
    /\ uploadError = [r \in Reqs |-> NoError]
    /\ extracted = [r \in Reqs |-> NoExtraction]
    /\ listing = <<>>
    /\ lookup = NoLookup
    /\ selected = ""
    /\ fileNameSpan = "Nenhum arquivo escolhido"
    /\ disabled = TRUE
    /\ display = "none"
    /\ messageP = ""
    /\ jsonOutput = NoBody
    /\ pending = <<>>

\* res.status(status).json(body)
Send(r, response) ==
    /\ res' = [res EXCEPT ![r] = response]
    /\ sent' = [sent EXCEPT ![r] = @ + 1]

\* POST /extract-data reaches the handler: const startTime = Date.now().
\* The requests are numbered in the order in which they arrive.
Receive(r) ==
    /\ stage[r] = "Idle"
    /\ \A q \in Reqs : q < r => stage[q] # "Idle"
    /\ \E f \in Files : file' = [file EXCEPT ![r] = f]
    /\ startTime' = [startTime EXCEPT ![r] = clock]
    /\ stage' = [stage EXCEPT ![r] = "Received"]
    /\ UNCHANGED <<apiKey, clock, calls, reply, threw, data, res, sent>>
    /\ UNCHANGED <<overlap, outside>>

\* The two early returns of the handler.
Validate(r) ==
    /\ stage[r] = "Received"
    /\ IF ~file[r].present
       THEN /\ Send(r, [NoResponse EXCEPT
                         !.status = 400,
                         !.keys = {"success", "error"},
                         !.error = "Nenhum arquivo PDF foi enviado."])
            /\ stage' = [stage EXCEPT ![r] = "Failed"]
       ELSE IF ~apiKey
       THEN /\ Send(r, [NoResponse EXCEPT
                         !.status = 500,
                         !.keys = {"success", "error", "instructions"},
                         !.error = "Chave da API do Google Gemini não configurada.",
                         !.instructions = "Adicione GEMINI_API_KEY=sua_chave no arquivo .env"])
            /\ stage' = [stage EXCEPT ![r] = "Failed"]
       ELSE /\ stage' = [stage EXCEPT ![r] = "Validated"]
            /\ UNCHANGED <<res, sent>>
    /\ UNCHANGED <<apiKey, clock, file, startTime, calls, reply, threw, data>>
    /\ UNCHANGED <<overlap, outside>>

\* The catch of processPDFWithGemini: whatever was thrown is thrown again
\* as a new Error whose message is the prefix and the message of the cause.
Rethrow(r, message, quoted) ==
    /\ threw' = [threw EXCEPT ![r] =
                    [prefix |-> "Falha no processamento IA: ",
                     message |-> message, quoted |-> quoted]]
    /\ stage' = [stage EXCEPT ![r] = "Failed"]

\* The catch of the handler: status 500 with the message of the error and
\* the time taken.
CatchResponse(r) ==
    [NoResponse EXCEPT
        !.status = 500,
        !.keys = {"success", "error", "details", "processingTime", "timestamp"},
        !.error = "Erro ao processar o arquivo PDF.",
        !.details = threw'[r],
        !.processingTime = ToFixed1(clock - startTime[r]),
        !.timestamp = clock]

\* processPDFWithGemini up to the inference call: the model handle, the
\* prompt, the base64 of the buffer and the file part.
BuildRequest(r) ==
    /\ stage[r] = "Validated"
    /\ stage' = [stage EXCEPT ![r] = "RequestBuilt"]
    /\ UNCHANGED <<apiKey, clock, file, startTime, calls, reply, threw, data, res, sent>>
    /\ UNCHANGED <<overlap, outside>>

\* The same lines when the client library throws.
BuildFails(r) ==
    /\ stage[r] = "Validated"
    /\ \E e \in InferenceErrors : Rethrow(r, e, <<>>)
    /\ Send(r, CatchResponse(r))
    /\ UNCHANGED <<apiKey, clock, file, startTime, calls, reply, data>>
    /\ UNCHANGED <<overlap, outside>>

\* model.generateContent([prompt, filePart])
CallInference(r) ==
    /\ stage[r] = "RequestBuilt"
    /\ calls' = [calls EXCEPT ![r] = @ + 1]
    /\ stage' = [stage EXCEPT ![r] = "InferenceInFlight"]
    /\ UNCHANGED <<apiKey, clock, file, startTime, reply, threw, data, res, sent>>
    /\ overlap' = IF \E q \in Reqs \ {r} : stage[q] = "InferenceInFlight"
                  THEN [q \in Reqs |->
                          overlap[q] \/ q = r \/ stage[q] = "InferenceInFlight"]
                  ELSE overlap
    /\ UNCHANGED outside

\* A handler that calls the backend again after a rejected call.
InferenceFailsRetry(r) ==
    /\ stage[r] = "InferenceInFlight"
    /\ IF calls[r] < 2
       THEN /\ calls' = [calls EXCEPT ![r] = @ + 1]
            /\ UNCHANGED <<stage, threw, res, sent>>
       ELSE /\ \E e \in InferenceErrors : Rethrow(r, e, <<>>)
            /\ Send(r, CatchResponse(r))
            /\ UNCHANGED calls
    /\ UNCHANGED <<apiKey, clock, file, startTime, reply, data>>
    /\ UNCHANGED <<overlap, outside>>

\* A handler whose catch does not answer: the error of a rejected call
\* escapes.
InferenceFailsUncaught(r) ==
    /\ stage[r] = "InferenceInFlight"
    /\ \E e \in InferenceErrors : Rethrow(r, e, <<>>)
    /\ UNCHANGED <<apiKey, clock, file, startTime, calls, reply, data, res, sent>>
    /\ UNCHANGED <<overlap, outside>>

\* The call is rejected (network, quota, a blocked reply).
InferenceFails(r) ==
    /\ stage[r] = "InferenceInFlight"
    /\ \E e \in InferenceErrors : Rethrow(r, e, <<>>)
    /\ Send(r, CatchResponse(r))
    /\ UNCHANGED <<apiKey, clock, file, startTime, calls, reply, data>>
    /\ UNCHANGED <<overlap, outside>>

\* What the SyntaxError of JSON.parse may quote of the text it was given:
\* depending on the engine nothing, or the text itself.
SyntaxErrorQuotes(text) == {<<>>, text}

\* The call returns a reply, which is cleaned up and parsed; a SyntaxError
\* goes through both catches.
InferenceReplies(r, replies) ==
    /\ stage[r] = "InferenceInFlight"
    /\ \E raw \in replies :
          LET p == Processed[raw]
          IN  /\ reply' = [reply EXCEPT ![r] = raw]
              /\ IF p.ok
                 THEN /\ data' = [data EXCEPT ![r] = p.extractedData]
                      /\ stage' = [stage EXCEPT ![r] = "ResponseParsed"]
                      /\ UNCHANGED <<threw, res, sent>>
                 ELSE /\ \E q \in SyntaxErrorQuotes(p.text) :
                            Rethrow(r, "SyntaxError", q)
                      /\ Send(r, CatchResponse(r))
                      /\ UNCHANGED data
    /\ UNCHANGED <<apiKey, clock, file, startTime, calls>>
    /\ UNCHANGED <<overlap, outside>>

\* A handler that keeps the parsed record and the upload in variables of
\* the module, shared by all requests: it answers with those of the latest
\* request that got a record.
RespondShared(r) ==
    /\ stage[r] = "ResponseParsed"
    /\ LET last == Max({q \in Reqs : stage[q] \in {"ResponseParsed", "Completed"}})
       IN  Send(r, [NoResponse EXCEPT
                      !.status = 200,
                      !.keys = {"success", "method", "data", "metadata"},
                      !.success = TRUE,
                      !.method = "direct_pdf_processing",
                      !.data = data[last],
                      !.metadata = [filename |-> file[last].originalname,
                                    fileSize |-> file[last].size,
                                    processingTime |-> ToFixed1(clock - startTime[r]),
                                    timestamp |-> clock]])
    /\ stage' = [stage EXCEPT ![r] = "Completed"]
    /\ UNCHANGED <<apiKey, clock, file, startTime, calls, reply, threw, data>>
    /\ UNCHANGED <<overlap, outside>>

\* The handler answers with the record and the metadata.
Respond(r) ==
    /\ stage[r] = "ResponseParsed"
    /\ Send(r, [NoResponse EXCEPT
                  !.status = 200,
                  !.keys = {"success", "method", "data", "metadata"},
                  !.success = TRUE,
                  !.method = "direct_pdf_processing",
                  !.data = data[r],
                  !.metadata = [filename |-> file[r].originalname,
                                fileSize |-> file[r].size,
                                processingTime |-> ToFixed1(clock - startTime[r]),
                                timestamp |-> clock]])
    /\ stage' = [stage EXCEPT ![r] = "Completed"]
    /\ UNCHANGED <<apiKey, clock, file, startTime, calls, reply, threw, data>>
    /\ UNCHANGED <<overlap, outside>>

\* Time passes.
Tick ==
    /\ \E d \in TickSteps : clock + d <= MaxClock /\ clock' = clock + d
    /\ UNCHANGED <<apiKey, stage, file, startTime, calls, reply, threw, data, res, sent>>
    /\ UNCHANGED <<overlap, outside>>

\* The server with several requests in progress.
Next ==
    \/ \E r \in Reqs : Receive(r)
    \/ \E r \in Reqs : Validate(r)
    \/ \E r \in Reqs : BuildRequest(r)
    \/ \E r \in Reqs : BuildFails(r)
    \/ \E r \in Reqs : CallInference(r)
    \/ \E r \in Reqs : InferenceFails(r)
    \/ \E r \in Reqs : InferenceReplies(r, SampleReplies)
    \/ \E r \in Reqs : Respond(r)
    \/ Tick

Spec == Init /\ [][Next]_vars

\* The first two requests, for the properties of progress.
Pair == {r \in Reqs : r <= 2}

NextPair ==
    \/ \E r \in Pair : Receive(r)
    \/ \E r \in Pair : Validate(r)
    \/ \E r \in Pair : BuildRequest(r)
    \/ \E r \in Pair : BuildFails(r)
    \/ \E r \in Pair : CallInference(r)
    \/ \E r \in Pair : InferenceFails(r)
    \/ \E r \in Pair : InferenceReplies(r, SampleReplies)
    \/ \E r \in Pair : Respond(r)
    \/ Tick

\* The event loop runs every continuation that is ready, and the call of
\* the backend settles: it returns a reply or it is rejected.
Fairness ==
    \A r \in Pair :
        /\ WF_vars(Validate(r))
        /\ WF_vars(BuildRequest(r) \/ BuildFails(r))
        /\ WF_vars(CallInference(r))
        /\ WF_vars(InferenceFails(r) \/ InferenceReplies(r, SampleReplies))
        /\ WF_vars(Respond(r))

SpecFair == Init /\ [][NextPair]_vars /\ Fairness

\* One request, with every reply of the simulated backend.
NextOne ==
    \/ Receive(1)
    \/ Validate(1)
    \/ BuildRequest(1)
    \/ BuildFails(1)
    \/ CallInference(1)
    \/ InferenceFails(1)
    \/ InferenceReplies(1, Replies)
    \/ Respond(1)
    \/ Tick

SpecOne == Init /\ [][NextOne]_vars

(***************************************************************************)
(* Uploads that multer refuses: the handler is not called, the error goes  *)
(* to the error-handling middleware of the modularised server.             *)
(***************************************************************************)
\* app.use((error, req, res, next) => ...); in the status-500 answer the
\* details are the message of the error itself.
ErrorMiddleware(error) ==
    IF error.multer /\ error.code = "LIMIT_FILE_SIZE"
    THEN [NoResponse EXCEPT
            !.status = 400,
            !.keys = {"success", "error"},
            !.error = "Arquivo muito grande. Máximo 15MB permitido para PDFs."]
    ELSE IF Includes(error.message, FilterNeedle)
    THEN [NoResponse EXCEPT
            !.status = 400,
            !.keys = {"success", "error"},
            !.error = TextString(error.message)]
    ELSE [NoResponse EXCEPT
            !.status = 500,
            !.keys = {"success", "error", "details"},
            !.error = "Erro interno do servidor",
            !.details = [NoDetails EXCEPT !.message = TextString(error.message)]]

\* POST /extract-data with an upload that multer refuses.
RejectUpload(r) ==
    /\ stage[r] = "Idle"
    /\ \A q \in Reqs : q < r => stage[q] # "Idle"
    /\ \E u \in Uploads :
          /\ MulterOutcome(u) # NoError
          /\ uploadError' = [uploadError EXCEPT ![r] = MulterOutcome(u)]
          /\ Send(r, ErrorMiddleware(MulterOutcome(u)))
    /\ stage' = [stage EXCEPT ![r] = "Rejected"]
    /\ UNCHANGED <<apiKey, clock, file, startTime, calls, reply, threw, data, overlap>>
    /\ UNCHANGED <<extracted, listing, lookup, selected, fileNameSpan, disabled,
                   display, messageP, jsonOutput, pending>>

\* One request, refused by multer or handled.
NextUpload ==
    \/ RejectUpload(1)
    \/ Receive(1)
    \/ Validate(1)
    \/ BuildRequest(1)
    \/ BuildFails(1)
    \/ CallInference(1)
    \/ InferenceFails(1)
    \/ InferenceReplies(1, SampleReplies)
    \/ Respond(1)
    \/ Tick

SpecUpload == Init /\ [][NextUpload]_vars

(***************************************************************************)
(* The handler of the raw-text server: the text of the upload is extracted *)
(* and checked before the backend is called with it.                       *)
(***************************************************************************)
\* extractTextFromPDF returns the text of the document.
ExtractText(r) ==
    /\ stage[r] = "Validated"
    /\ \E doc \in DocumentsOf(file[r]) :
          /\ doc.loads
          /\ extracted' = [extracted EXCEPT ![r] =
                [done |-> TRUE, ok |-> TRUE, text |-> extractTextFromPDF(doc)]]
    /\ stage' = [stage EXCEPT ![r] = "TextExtracted"]
    /\ UNCHANGED <<apiKey, clock, file, startTime, calls, reply, threw, data, res, sent>>
    /\ UNCHANGED <<overlap, uploadError, listing, lookup, page>>

\* extractTextFromPDF throws: its catch throws a new Error, which the catch
\* of the handler answers.
ExtractFails(r) ==
    /\ stage[r] = "Validated"
    /\ \E doc \in DocumentsOf(file[r]) : ~doc.loads
    /\ extracted' = [extracted EXCEPT ![r] = [done |-> TRUE, ok |-> FALSE, text |-> <<>>]]
    /\ \E e \in PdfErrors :
          threw' = [threw EXCEPT ![r] =
                      [prefix |-> "Falha na extração de texto do PDF: ",
                       message |-> e, quoted |-> <<>>]]
    /\ stage' = [stage EXCEPT ![r] = "Failed"]
    /\ Send(r, CatchResponse(r))
    /\ UNCHANGED <<apiKey, clock, file, startTime, calls, reply, data>>
    /\ UNCHANGED <<overlap, uploadError, listing, lookup, page>>

\* A handler without the check of the extracted text.
CheckTextUnguarded(r) ==
    /\ stage[r] = "TextExtracted"
    /\ stage' = [stage EXCEPT ![r] = "RequestBuilt"]
    /\ UNCHANGED <<apiKey, clock, file, startTime, calls, reply, threw, data, res, sent>>
    /\ UNCHANGED <<overlap, outside>>

\* if (!extractedText || extractedText.length < 50) throw ...; otherwise
\* processWithGemini builds the prompt around the text.
CheckText(r) ==
    /\ stage[r] = "TextExtracted"
    /\ IF extracted[r].text = <<>> \/ Len(extracted[r].text) < MinTextLength
       THEN /\ threw' = [threw EXCEPT ![r] =
                          [prefix |-> "",
                           message |-> "Texto extraído do PDF é muito curto ou vazio. Verifique se o PDF não está corrompido.",
                           quoted |-> <<>>]]
            /\ stage' = [stage EXCEPT ![r] = "Failed"]
            /\ Send(r, CatchResponse(r))
       ELSE /\ stage' = [stage EXCEPT ![r] = "RequestBuilt"]
            /\ UNCHANGED <<threw, res, sent>>
    /\ UNCHANGED <<apiKey, clock, file, startTime, calls, reply, data>>
    /\ UNCHANGED <<overlap, outside>>

\* res.json of the raw-text server.
RespondText(r) ==
    /\ stage[r] = "ResponseParsed"
    /\ Send(r, [NoResponse EXCEPT
                  !.status = 200,
                  !.keys = {"success", "method", "data", "metadata", "debug"},
                  !.success = TRUE,
                  !.method = "pdf_text_extraction",
                  !.data = data[r],
                  !.metadata = [filename |-> file[r].originalname,
                                fileSize |-> file[r].size,
                                textLength |-> Len(extracted[r].text),
                                processingTime |-> ToFixed1(clock - startTime[r]),
                                timestamp |-> clock]])
    /\ stage' = [stage EXCEPT ![r] = "Completed"]
    /\ UNCHANGED <<apiKey, clock, file, startTime, calls, reply, threw, data>>
    /\ UNCHANGED <<overlap, outside>>

\* One request to the raw-text server.
NextText ==
    \/ Receive(1)
    \/ Validate(1)
    \/ ExtractText(1)
    \/ ExtractFails(1)
    \/ CheckText(1)
    \/ CallInference(1)
    \/ InferenceFails(1)
    \/ InferenceReplies(1, SampleReplies)
    \/ RespondText(1)
    \/ Tick

SpecText == Init /\ [][NextText]_vars

(***************************************************************************)
(* The page in the browser.  selected is the name of the file in the file  *)
(* input, "" when it holds none; pending holds, for each fetch that has    *)
(* not settled, the name of the file in its form data.  jsonOutput is the  *)
(* answer shown: the success answer of the server names the file it was    *)
(* made for in metadata.filename.                                          *)
(***************************************************************************)
FileNames == {"a.pdf", "b.pdf"}

\* The error fields of the answers that are not ok.
ServerErrors == {"Erro ao processar o arquivo PDF.", "Erro interno do servidor"}

\* The pending fetches without the i-th.
Settled(i) == SubSeq(pending, 1, i - 1) \o SubSeq(pending, i + 1, Len(pending))

\* The change event of the file input: another file is chosen, or none.
Change ==
    /\ \E f \in FileNames \cup {""} :
          /\ f # selected
          /\ selected' = f
          /\ IF f # ""
             THEN fileNameSpan' = f /\ disabled' = FALSE
             ELSE fileNameSpan' = "Nenhum arquivo escolhido" /\ disabled' = TRUE
    /\ display' = "none"
    /\ messageP' = ""
    /\ UNCHANGED <<jsonOutput, pending>>
    /\ UNCHANGED <<server, listing, lookup>>

\* The click event of the extract button, which a disabled button does not
\* receive: without a file an alert, otherwise the fetch is started.
Click ==
    /\ ~disabled
    /\ IF selected = ""
       THEN UNCHANGED <<messageP, disabled, pending>>
       ELSE /\ Len(pending) < MaxPending
            /\ messageP' = "Extraindo dados..."
            /\ disabled' = TRUE
            /\ pending' = Append(pending, selected)
    /\ UNCHANGED <<selected, fileNameSpan, display, jsonOutput>>
    /\ UNCHANGED <<server, listing, lookup>>

\* A fetch settles with an answer that is ok.
ArriveOk ==
    /\ \E i \in 1..Len(pending) :
          /\ jsonOutput' = [ok |-> TRUE, filename |-> pending[i], error |-> ""]
          /\ pending' = Settled(i)
    /\ display' = "block"
    /\ messageP' = "Dados extraídos com sucesso!"
    /\ disabled' = FALSE
    /\ UNCHANGED <<selected, fileNameSpan>>
    /\ UNCHANGED <<server, listing, lookup>>

\* A fetch settles with an answer that is not ok.
ArriveError ==
    /\ \E i \in 1..Len(pending) : pending' = Settled(i)
    /\ \E e \in ServerErrors : messageP' = "Erro: " \o e
    /\ disabled' = FALSE
    /\ UNCHANGED <<selected, fileNameSpan, display, jsonOutput>>
    /\ UNCHANGED <<server, listing, lookup>>

\* A fetch is rejected, or its answer is no JSON.
ArriveFailure ==
    /\ \E i \in 1..Len(pending) : pending' = Settled(i)
    /\ messageP' = "Erro ao se conectar com o servidor."
    /\ disabled' = FALSE
    /\ UNCHANGED <<selected, fileNameSpan, display, jsonOutput>>
    /\ UNCHANGED <<server, listing, lookup>>

NextClient ==
    \/ Change
    \/ Click
    \/ ArriveOk
    \/ ArriveError
    \/ ArriveFailure

SpecClient == Init /\ [][NextClient]_vars

(***************************************************************************)
(* The category routes.                                                    *)
(***************************************************************************)
\* GET /categories
GetCategories ==
    /\ listing' = CategoriesBody
    /\ UNCHANGED <<server, lookup, page>>

\* A call of the exported getCategoryExamples.
GetExamples ==
    /\ \E category \in LookupArguments :
          lookup' = [called |-> TRUE, category |-> category,
                     result |-> getCategoryExamples(category)]
    /\ UNCHANGED <<server, listing, page>>

\* The category routes beside the handling of one extraction request.
NextCategories ==
    \/ Receive(1)
    \/ Validate(1)
    \/ BuildRequest(1)
    \/ BuildFails(1)
    \/ CallInference(1)
    \/ InferenceFails(1)
    \/ InferenceReplies(1, SampleReplies)
    \/ Respond(1)
    \/ Tick
    \/ GetCategories
    \/ GetExamples

SpecCategories == Init /\ [][NextCategories]_vars

TypeOK ==
    /\ apiKey \in BOOLEAN
    /\ clock \in 0..MaxClock
    /\ \A r \in Reqs :
          /\ stage[r] \in Stages \cup {"Rejected", "TextExtracted"}
          /\ sent[r] \in 0..1

(***************************************************************************)
(* Vocabulary of the properties.                                           *)
(***************************************************************************)
JUndefined == [t |-> "undefined", n |-> 0, s |-> <<>>, kids |-> <<>>]

\* v[k] for a JSON value v: the member k of an object, undefined otherwise.
Field(v, k) ==
    IF v.t = "obj" /\ \E p \in 1..Len(v.kids) : v.kids[p].k = <<k>>
    THEN v.kids[CHOOSE p \in 1..Len(v.kids) : v.kids[p].k = <<k>>].v
    ELSE JUndefined

Absent(v) == v.t \in {"undefined", "null"}

\* The backend has replied to request r and the reply has been handled.
Replied(r) ==
    \/ stage[r] \in {"ResponseParsed", "Completed"}
    \/ stage[r] = "Failed" /\ threw[r].message = "SyntaxError"

\* Request r has been answered with a record.
Returned(r) == stage[r] = "Completed" /\ res[r].data.t = "obj"

\* The first top-level balanced brace-delimited substring of t: it starts at
\* the first "{" from which the braces balance and ends where they first do.
FirstBalanced(t) ==
    LET Depth(i, j) == Cardinality({k \in i..j : t[k] = "{"})
                         - Cardinality({k \in i..j : t[k] = "}"})
        Ends(i) == {j \in i..Len(t) : Depth(i, j) = 0}
        starts == {i \in 1..Len(t) : t[i] = "{" /\ Ends(i) # {}}
    IN  IF starts = {} THEN NoMatch
        ELSE [found |-> TRUE,
              text |-> SubSeq(t, Min(starts), Min(Ends(Min(starts))))]

\* What the specified parser makes of every reply of the simulated backend:
\* whether it holds a balanced object, and the parse of that object.
Specified ==
    [raw \in Replies |->
        LET candidate == FirstBalanced(StripFences(raw))
        IN  [found |-> candidate.found, parsed |-> JSONParse(candidate.text)]]

\* The digits of s, in their order.
OnlyDigits(s) == SelectSeq(s, LAMBDA c : c \in Digits)

TaxonomyNames == {CATEGORIAS_DESPESAS[i] : i \in 1..Len(CATEGORIAS_DESPESAS)}

\* C1 (category closure): the classificacao_despesa of every record returned
\* to the caller is absent or one of the 9 taxonomy entries; a non-taxonomy
\* string in the reply never reaches the caller.
C1_CategoryClosure ==
    \A r \in Reqs :
        Returned(r) =>
            LET c == Field(res[r].data, "classificacao_despesa")
            IN  Absent(c) \/ (c.t = "str" /\ c.s \in TaxonomyNames)

\* C2 (resilient JSON extraction): when the reply, fences stripped, holds a
\* balanced brace-delimited substring, the outcome is the parse of the first
\* such substring, whatever commentary stands before or after it.
C2_FirstBalancedObject ==
    \A r \in Reqs :
        Replied(r) /\ Specified[reply[r]].found =>
            LET expected == Specified[reply[r]].parsed
            IN  IF expected.ok
                THEN stage[r] # "Failed" /\ data[r] = expected.v
                ELSE stage[r] = "Failed"

\* C3 (rejection on no JSON): a reply without a balanced brace-delimited
\* object, a bare number, string, null or array included, ends the request
\* with a parse failure and no record.
C3_NoObjectRejected ==
    \A r \in Reqs :
        Replied(r) /\ ~Specified[reply[r]].found =>
            stage[r] = "Failed" /\ threw[r].message = "SyntaxError"

\* C4 (default installment): every returned record has quantidade_parcelas
\* as an integer >= 1, and it is 1 when the reply omits it.
C4_DefaultInstallment ==
    \A r \in Reqs :
        Returned(r) =>
            LET q == Field(res[r].data, "quantidade_parcelas")
                given == Field(Processed[reply[r]].extractedData, "quantidade_parcelas")
            IN  /\ q.t = "num" /\ q.n >= Scale /\ q.n % Scale = 0
                /\ given.t = "undefined" => q = JNum(Scale)

\* C5 (tax-ID digit-only invariant): in every returned record fornecedor.cnpj
\* and faturado.cpf are absent or made of decimal digits only, namely the
\* digits of the value of the reply in their order.
C5_TaxIdDigitsOnly ==
    \A r \in Reqs :
        Returned(r) =>
            \A path \in {<<"fornecedor", "cnpj">>, <<"faturado", "cpf">>} :
                LET v == Field(Field(res[r].data, path[1]), path[2])
                    given == Field(Field(Processed[reply[r]].extractedData,
                                         path[1]), path[2])
                IN  /\ Absent(v) \/ (v.t = "str" /\ \A i \in 1..Len(v.s) : v.s[i] \in Digits)
                    /\ given.t = "str" => v = JStr(OnlyDigits(given.s))

\* C6 (amount and invoice-number normalization): the scenario reply, with
\* numero_nota_fiscal "000.207.590" and valor_total "3.449,00" in a json
\* fence, is returned with numero_nota_fiscal "000207590" and valor_total the
\* number 3449.00.
C6_ScenarioNormalized ==
    \A r \in Reqs :
        Returned(r) /\ reply[r] = ScenarioReply =>
            /\ Field(res[r].data, "numero_nota_fiscal") = JStr(CleanNumero)
            /\ Field(res[r].data, "valor_total") = JNum(3449 * Scale)

StageOrder ==
    {<<"Idle", "Received">>, <<"Received", "Validated">>,
     <<"Validated", "RequestBuilt">>, <<"RequestBuilt", "InferenceInFlight">>,
     <<"InferenceInFlight", "ResponseParsed">>, <<"ResponseParsed", "Completed">>}
    \cup {<<s, "Failed">> : s \in Stages \ {"Idle", "Completed", "Failed"}}

\* C7 (single-shot inference, no retry): the stages of a request follow the
\* order Received, Validated, RequestBuilt, InferenceInFlight, ResponseParsed,
\* Completed, or pass from a non-terminal stage to Failed; Completed and
\* Failed are final; the backend is called at most once per request, only on
\* entering InferenceInFlight, and never on the way to Failed.
C7_SingleShot ==
    /\ [](\A r \in Reqs : calls[r] <= 1)
    /\ [][\A r \in Reqs :
            /\ stage'[r] # stage[r] => <<stage[r], stage'[r]>> \in StageOrder
            /\ stage[r] \in {"Completed", "Failed"} =>
                    stage'[r] = stage[r] /\ calls'[r] = calls[r]
            /\ calls'[r] # calls[r] =>
                    stage[r] = "RequestBuilt" /\ stage'[r] = "InferenceInFlight"
            /\ stage'[r] = "Failed" => calls'[r] = calls[r]]_vars

\* A request failed by its inference call or by the parse of the reply, the
\* backend called once, while another request completed.
C7_Witness ==
    \E r, q \in Reqs :
        /\ stage[r] = "Failed" /\ calls[r] = 1
        /\ stage[q] = "Completed" /\ calls[q] = 1

StageTags == {"extraction_request_failed", "inference_call_failed", "response_parse_failed"}

\* The strings that the body of a response carries.
ResponseStrings(response) ==
    {response.error, response.instructions, response.method,
     response.details.prefix, response.details.message}

\* C8 (failures carry time and stage): the response of every failed request
\* carries the elapsed processing time and one of the stage tags.
C8_FailureCarriesTimeAndStage ==
    \A r \in Reqs :
        stage[r] = "Failed" =>
            /\ "processingTime" \in res[r].keys
            /\ ResponseStrings(res[r]) \cap StageTags # {}

\* C9 (empty or missing document): a request without a document, or with a
\* document of zero bytes, never reaches the backend and is answered with a
\* client-side failure.
C9_EmptyDocumentRejected ==
    \A r \in Reqs :
        stage[r] # "Idle" /\ (~file[r].present \/ file[r].size = 0) =>
            /\ calls[r] = 0
            /\ stage[r] \notin {"Validated", "RequestBuilt", "InferenceInFlight",
                                "ResponseParsed", "Completed"}
            /\ stage[r] = "Failed" => res[r].status = 400

\* C10 (malformed-response diagnostics): when the parse of the reply fails,
\* the response to the caller holds the raw reply of the backend.
C10_RawReplyRetained ==
    \A r \in Reqs :
        stage[r] = "Failed" /\ threw[r].message = "SyntaxError" =>
            res[r].details.quoted = reply[r]
\* C11 (category listing): the listing is the 9 taxonomy categories in their
\* order, the i-th with id i, its name and its example terms, whatever
\* requests were handled before; the examples of a string that is not a
\* taxonomy category are the empty list.
C11_CategoryListing ==
    /\ listing # <<>> =>
            /\ Len(listing) = 9
            /\ \A i \in 1..Len(listing) :
                    /\ listing[i].id = i
                    /\ listing[i].name = CATEGORIAS_DESPESAS[i]
                    /\ listing[i].examples.kind = "array"
                    /\ listing[i].examples.items # <<>>
    /\ lookup.called /\ lookup.category \notin TaxonomyNames =>
            lookup.result = List(<<>>)
\* C12 (request independence): with several requests in progress, the
\* answer to each request is made of its own upload and its own backend
\* reply only: the record is the parse of its own reply, the metadata name
\* its own file, and it fails by the parse exactly when its own reply does
\* not parse.
C12_RequestIndependence ==
    \A r \in Reqs :
        /\ stage[r] = "Completed" =>
                /\ res[r].data = Processed[reply[r]].extractedData
                /\ res[r].metadata.filename = file[r].originalname
                /\ res[r].metadata.fileSize = file[r].size
        /\ Replied(r) => (stage[r] = "Failed" <=> ~Processed[reply[r]].ok)
        /\ stage[r] = "Failed" /\ threw[r].message = "SyntaxError" =>
                /\ res[r].details = threw[r]
                /\ threw[r].quoted \in SyntaxErrorQuotes(Processed[reply[r]].text)
        /\ stage[r] = "Failed" /\ res[r].status = 400 => ~file[r].present

\* Two requests whose inference calls were in flight together, with
\* different uploads and different replies, both answered, the one that
\* arrived later first.
C12_Witness ==
    \E r, q \in Reqs :
        /\ r < q /\ overlap[r] /\ overlap[q]
        /\ stage[r] = "Completed" /\ stage[q] = "Completed"
        /\ reply[r] # reply[q] /\ file[r] # file[q]
        /\ res[q].metadata.timestamp < res[r].metadata.timestamp
\* C13 (non-positive installment count rejected): when the reply parses to
\* an object whose quantidade_parcelas is present and is not a positive
\* integer, the extraction fails and no record is returned.
C13_NonPositiveInstallmentRejected ==
    \A r \in Reqs :
        Replied(r) /\ Processed[reply[r]].ok =>
            LET q == Field(Processed[reply[r]].extractedData, "quantidade_parcelas")
            IN  q.t = "num" /\ (q.n < Scale \/ q.n % Scale # 0) =>
                    stage[r] = "Failed"
\* C14 (rejected media type): an upload that the file filter refuses
\* because it is not application/pdf is answered with status 400 and the
\* message of the filter, not with the generic status-500 answer.
C14_FilterRejectionIs400 ==
    \A r \in Reqs :
        stage[r] = "Rejected" /\ uploadError[r] = PlainError(FilterMessage) =>
            /\ res[r].status = 400
            /\ res[r].error = TextString(FilterMessage)

\* C15 (text before inference, raw-text server): the backend is called for
\* a request only after the extraction has returned a text of at least 50
\* characters; a request whose extraction failed or returned a shorter or
\* empty text never calls the backend and, once it has left the check, has
\* failed with status 500.
C15_TextBeforeInference ==
    \A r \in Reqs :
        /\ calls[r] >= 1 =>
              extracted[r].ok /\ Len(extracted[r].text) >= MinTextLength
        /\ extracted[r].done /\ (~extracted[r].ok \/ Len(extracted[r].text) < MinTextLength) =>
              /\ calls[r] = 0
              /\ stage[r] \in {"TextExtracted", "Failed"}
              /\ stage[r] = "Failed" => sent[r] = 1 /\ res[r].status = 500

\* A request whose text is one character too short has failed with status
\* 500 without a call of the backend.
C15_Witness ==
    \E r \in Reqs :
        /\ extracted[r].ok
        /\ Len(extracted[r].text) = MinTextLength - 1
        /\ stage[r] = "Failed"
        /\ res[r].status = 500
        /\ calls[r] = 0

\* C16 (exactly one response): a request that has reached the handler has
\* no response while the handler works on it and one response when the
\* handler has finished, whether it completed or failed; a response that
\* was sent is never followed by another; and every request that reaches
\* the handler is eventually answered.
C16_ExactlyOneResponse ==
    /\ [](\A r \in Reqs :
            /\ sent[r] <= 1
            /\ stage[r] \in {"Completed", "Failed"} => sent[r] = 1
            /\ stage[r] \in Stages \ {"Completed", "Failed"} => sent[r] = 0)
    /\ [][\A r \in Reqs : sent[r] = 1 => sent'[r] = 1 /\ res'[r] = res[r]]_vars
    /\ \A r \in Reqs : (stage[r] = "Received") ~> (sent[r] = 1)

\* One request has been answered with its record and another with the
\* failure of its extraction step.
C16_Witness ==
    \E r, q \in Reqs :
        /\ stage[r] = "Completed" /\ sent[r] = 1 /\ res[r].status = 200
        /\ stage[q] = "Failed" /\ threw[q].prefix # "" /\ sent[q] = 1
        /\ res[q].status = 500

\* C17 (button guard): the extract button is enabled only when a file is
\* selected and no request of the page is in flight, and at most one
\* request of the page is in flight.
C17_ButtonGuard ==
    /\ ~disabled => selected # "" /\ pending = <<>>
    /\ Len(pending) <= 1

\* C18 (no stale result): when the result container is visible with the
\* success message, the answer shown is the one for the file that the
\* file-name label names.
C18_NoStaleResult ==
    display = "block" /\ messageP = "Dados extraídos com sucesso!" =>
        jsonOutput.ok /\ jsonOutput.filename = fileNameSpan
====
